---- MODULE Spec2Model ----
(***************************************************************************)
(* A model of tmuxtop (src/tmuxtop.py): the interaction loop of TmuxTop,   *)
(* the cadence-gated sampler update_data with the ProcessInfo history      *)
(* cache, the renderer draw_screen, and the environment they read (the     *)
(* multiplexer, the OS process table, the wall clock, the keyboard).       *)
(*                                                                         *)
(* A sample read by cpu_percent()/memory_percent() is identified by the    *)
(* refresh in which it was read and by the incarnation of the process it   *)
(* was read from, so that order, eviction and provenance are observable.   *)
(*                                                                         *)
(* Spec is the program: the dashboard, and the one-shot runs `--backup`    *)
(* and `--restore`. ShellSpec writes one line of the backup script for a   *)
(* pane of arbitrary values and has bash read it; GraphSpec draws the      *)
(* sparkline of a history of numeric samples.                              *)
(***************************************************************************)
EXTENDS Integers, Sequences, FiniteSets, TLC

VARIABLES
    pc,               \* position of TmuxTop.run: "update", "draw", "getch", "done", "crashed";
                      \* of a one-shot run: "backup", "restore", "exit"; "call": a function alone
    key,              \* the key last returned by getch in run ("none": the timeout)
    now,              \* the wall clock, time.time(), in seconds
    scroll_position,  \* TmuxTop.scroll_position
    sessions,         \* TmuxTop.sessions
    process_cache,    \* TmuxTop.process_cache: pid -> ProcessInfo
    last_update,      \* TmuxTop.last_update
    screen,           \* what the last draw_screen wrote to stdscr
    tmux,             \* environment: the multiplexer, as `tmux list-panes -a` sees it
    parent,           \* environment: the OS process table (parent of each live process)
    gen,              \* environment: the incarnation holding each process id
    files,            \* environment: the tmux_backup_*.sh files of the working directory
    ran,              \* environment: the scripts restore_sessions has run with bash
    status,           \* the last status message written by backup or restore
    tick,             \* history: the number of executed refreshes
    prev_cache,       \* history: process_cache before the last executed refresh
    seen,             \* history: consecutive successful refreshes of each tracked pid
    fault,            \* history: the read that failed in the last executed refresh
    left,             \* the events and scroll keys left to the run, and the time at which it is cut
    input,            \* the argument of a function that is run alone
    output            \* what that function returned

progState == <<pc, key, now, scroll_position, sessions, process_cache, last_update, screen,
               tmux, parent, gen, files, ran, status, tick, prev_cache, seen, fault, left>>

vars == <<pc, key, now, scroll_position, sessions, process_cache, last_update, screen,
          tmux, parent, gen, files, ran, status, tick, prev_cache, seen, fault, left,
          input, output>>

----------------------------------------------------------------------------
(* Program constants *)

\* deque(maxlen=20)
HistCap == 20
\* self.update_interval = 2
update_interval == 2
\* line = 3 at the start of the body layout
HeaderHeight == 3
\* time.sleep(2) after a status message
StatusSleep == 2
\* len(process_str): the widths 7, 7, 8, 5, 5 of its fields and four blanks
ProcessStrLen == 36
\* self.stdscr.timeout(1000): getch waits at most one second
GetchTimeout == 1

(* Bounds of the model *)

\* the clock value at start-up (time.time() of a real clock is far above update_interval)
StartTime == 2
\* seconds after which no key wait starts, when the environment is rich
ShortRun == 3
\* the same when the environment is quiet (enough refreshes to fill a history)
LongRun == 42
\* scroll-down is unbounded in the code; a run has this many scroll keys
MaxScroll == 5
\* seconds after which no key wait starts, when the user scrolls
ScrollRun == 1
\* rows of the terminal, stdscr.getmaxyx()[0]
Height == 8
\* events of a rich run: process exits and spawns, multiplexer changes,
\* sampling failures, key presses other than quit
MaxEvents == 2

----------------------------------------------------------------------------
(* The environment *)

\* pane process ids the multiplexer may report: 1 and 2 are live shells, 3 is a
\* pane whose process has already exited (psutil.Process raises NoSuchProcess)
ShellPids == {1, 2}
StalePid == 3
\* process ids of programs started under the shells
ChildPids == {11, 12}
NoParent == 0

Line(s, wi, wn, pi, pid) ==
    [session |-> s, window_index |-> wi, window_name |-> wn, pane_index |-> pi, pane_pid |-> pid]

\* outputs of `tmux list-panes -a -F ...` of a running server with sessions
OnePane == << Line("a", 0, "w", 0, 1) >>
TwoPanes == << Line("a", 0, "w", 0, 1), Line("a", 0, "w", 1, 2) >>
\* one window linked into two sessions: the same pane is listed under both
LinkedWindow == << Line("a", 0, "w", 0, 1), Line("b", 0, "w", 0, 1) >>
TwoSessions == << Line("a", 0, "w", 0, 1), Line("b", 1, "x", 0, 2), Line("b", 1, "x", 1, StalePid) >>

TmuxOutputs == {OnePane, TwoPanes, LinkedWindow, TwoSessions}

\* "absent": no tmux binary; "down": no server running (exit status 1);
\* "up" with no lines: a server with no sessions (exit status 0, empty output)
TmuxStates ==
    {[st |-> "absent", out |-> <<>>], [st |-> "down", out |-> <<>>], [st |-> "up", out |-> <<>>]}
    \cup {[st |-> "up", out |-> o] : o \in TmuxOutputs}

\* the process tables at start-up: 11 runs under shell 1, and 12 under 11 or under shell 2
InitialTables ==
    {f \in [ChildPids -> {NoParent} \cup ShellPids \cup ChildPids] :
        f[11] = 1 /\ f[12] \in {11, 2}}

\* process tables: 11 runs under a shell or is dead, 12 runs under a shell, under 11, or is dead
ProcessTables ==
    {f \in [ChildPids -> {NoParent} \cup ShellPids \cup ChildPids] :
        /\ f[11] \in {NoParent} \cup ShellPids
        /\ f[12] \in {NoParent} \cup ShellPids \cup (IF f[11] # NoParent THEN {11} ELSE {})}

----------------------------------------------------------------------------
(* get_tmux_info *)

\* sessions[session] of the defaultdict: the position of the session named s, 0 if none
SessionAt(ss, s) ==
    IF \E i \in 1..Len(ss) : ss[i].name = s
    THEN CHOOSE i \in 1..Len(ss) : ss[i].name = s
    ELSE 0

\* sessions[session][f"{window_index}:{window_name}"]: the position of that key, 0 if none
WindowAt(ws, wi, wn) ==
    IF \E i \in 1..Len(ws) : ws[i].index = wi /\ ws[i].name = wn
    THEN CHOOSE i \in 1..Len(ws) : ws[i].index = wi /\ ws[i].name = wn
    ELSE 0

\* sessions[session][key].append((pane_index, pane_pid)) on the windows of one session
AddPane(ws, l) ==
    LET j == WindowAt(ws, l.window_index, l.window_name)
        p == [index |-> l.pane_index, pid |-> l.pane_pid]
    IN IF j = 0
       THEN Append(ws, [index |-> l.window_index, name |-> l.window_name, panes |-> <<p>>])
       ELSE [ws EXCEPT ![j].panes = Append(@, p)]

\* one iteration of `for line in tmux_output`
AddLine(ss, l) ==
    LET i == SessionAt(ss, l.session)
    IN IF i = 0
       THEN Append(ss, [name |-> l.session, windows |-> AddPane(<<>>, l)])
       ELSE [ss EXCEPT ![i].windows = AddPane(@, l)]

RECURSIVE ParseLines(_, _, _)
ParseLines(out, i, ss) ==
    IF i > Len(out) THEN ss ELSE ParseLines(out, i + 1, AddLine(ss, out[i]))

\* get_tmux_info(): the sessions it returns, or the exception that leaves it.
\* No binary: subprocess.run raises FileNotFoundError, which is not caught.
\* No server: CalledProcessError, caught, the empty dict is returned.
\* Empty output: "".split("\n") is [""], and unpacking [""] into five names
\* raises ValueError, which is not caught.
get_tmux_info(t) ==
    CASE t.st = "absent" -> [raised |-> TRUE, sessions |-> <<>>]
      [] t.st = "down" -> [raised |-> FALSE, sessions |-> <<>>]
      [] t.st = "up" /\ t.out = <<>> -> [raised |-> TRUE, sessions |-> <<>>]
      [] OTHER -> [raised |-> FALSE, sessions |-> ParseLines(t.out, 1, <<>>)]

----------------------------------------------------------------------------
(* get_process_tree, get_actual_command *)

\* the processes whose parent is in S
ChildrenOf(S) == {c \in ChildPids : parent[c] \in S}

RECURSIVE DescendantsOf(_, _)
DescendantsOf(S, n) ==
    IF n = 0 THEN {} ELSE ChildrenOf(S) \cup DescendantsOf(ChildrenOf(S), n - 1)

RECURSIVE SortedSeq(_)
SortedSeq(S) ==
    IF S = {} THEN <<>>
    ELSE LET m == CHOOSE x \in S : \A y \in S : x <= y
         IN <<m>> \o SortedSeq(S \ {m})

\* psutil.Process(pid).children(recursive=True): the descendants, never the process itself
Children(pid) == SortedSeq(DescendantsOf({pid}, Cardinality(ChildPids)))

\* a psutil.Process handle: the pid and the incarnation it was created for
Handle(p) == [pid |-> p, gen |-> gen[p]]

RECURSIVE Handles(_, _)
Handles(ps, i) ==
    IF i > Len(ps) THEN <<>> ELSE <<Handle(ps[i])>> \o Handles(ps, i + 1)

\* get_process_tree(pid): psutil.Process(pid) raises NoSuchProcess for a pid no
\* process holds, and [] is returned
get_process_tree(pid) ==
    IF pid \in ShellPids THEN Handles(Children(pid), 1) ELSE <<>>

\* cmdline()[0] of a live process: the panes run shells, their descendants programs
CmdName(p) == IF p \in ShellPids THEN "bash" ELSE "prog"
ShellNames == {"bash", "sh", "zsh", "fish"}
None == <<>>

\* get_actual_command(pid): the command line of the last descendant, or of the
\* process itself when it has none, unless it is a shell; None otherwise
get_actual_command(pid) ==
    IF pid \notin ShellPids THEN None
    ELSE LET children == Children(pid)
             actual_process == IF children # <<>> THEN children[Len(children)] ELSE pid
         IN IF CmdName(actual_process) \notin ShellNames
            THEN <<CmdName(actual_process)>>
            ELSE None

----------------------------------------------------------------------------
(* ProcessInfo *)

\* an attribute no assignment has reached yet (reading it raises AttributeError)
Unset == 0

\* the reads of ProcessInfo.update in program order; each may raise
\* NoSuchProcess or AccessDenied, which ends the update
Reads == <<"ppid", "username", "cpu_percent", "memory_percent", "create_time", "cmdline">>
ReadPos(r) == CHOOSE i \in 1..Len(Reads) : Reads[i] = r
\* failing read f ("none": no read fails): is the statement after read r executed?
Done(f, r) == f = "none" \/ ReadPos(r) < ReadPos(f)
Failures == {Reads[i] : i \in 1..Len(Reads)}

\* a deque that never evicts
DequeAppendUnbounded(d, x) == Append(d, x)

\* deque(maxlen=20).append(x)
DequeAppend(d, x) ==
    IF Len(d) < HistCap THEN Append(d, x) ELSE Append(Tail(d), x)

\* the sample read in refresh t from whatever process holds the pid now
Sample(p, t) == [t |-> t, g |-> gen[p]]

\* ProcessInfo.update(): refresh t, failing read f
update(info, t, f) ==
    LET p == info.process.pid
        both == Done(f, "cpu_percent") /\ Done(f, "memory_percent")
    IN [info EXCEPT
          !.pid = p,
          !.ppid = IF Done(f, "ppid") THEN t ELSE @,
          !.username = IF Done(f, "username") THEN t ELSE @,
          !.cpu_history = IF both THEN DequeAppend(@, Sample(p, t)) ELSE @,
          !.mem_history = IF both THEN DequeAppend(@, Sample(p, t)) ELSE @,
          !.create_time = IF Done(f, "create_time") THEN t ELSE @,
          !.cmdline = IF Done(f, "cmdline") THEN t ELSE @]

\* ProcessInfo(process): empty histories, then the first update
ProcessInfo(process, t, f) ==
    update([process |-> process, cpu_history |-> <<>>, mem_history |-> <<>>,
            pid |-> Unset, ppid |-> Unset, username |-> Unset,
            create_time |-> Unset, cmdline |-> Unset], t, f)

----------------------------------------------------------------------------
(* TmuxTop.update_data *)

EmptyCache == [q \in {} |-> Unset]

Put(cache, p, info) ==
    [q \in DOMAIN cache \cup {p} |-> IF q = p THEN info ELSE cache[q]]

\* the processes the nested loops of update_data visit, in order:
\* for each session, window and pane, the handles of get_process_tree(pid)
RECURSIVE PaneVisits(_, _)
PaneVisits(panes, i) ==
    IF i > Len(panes) THEN <<>>
    ELSE get_process_tree(panes[i].pid) \o PaneVisits(panes, i + 1)

RECURSIVE WindowVisits(_, _)
WindowVisits(windows, i) ==
    IF i > Len(windows) THEN <<>>
    ELSE PaneVisits(windows[i].panes, 1) \o WindowVisits(windows, i + 1)

RECURSIVE SessionVisits(_, _)
SessionVisits(ss, i) ==
    IF i > Len(ss) THEN <<>>
    ELSE WindowVisits(ss[i].windows, 1) \o SessionVisits(ss, i + 1)

\* the body of `for process in processes`: st.old is self.process_cache, whose
\* ProcessInfo objects update() changes in place, st.new is new_cache
VisitProcess(st, process, t, f) ==
    IF process.pid \in DOMAIN st.old
    THEN LET info == update(st.old[process.pid], t, f)
         IN [old |-> [st.old EXCEPT ![process.pid] = info],
             new |-> Put(st.new, process.pid, info)]
    ELSE [old |-> st.old,
          new |-> Put(st.new, process.pid, ProcessInfo(process, t, f))]

\* the loops over the visits; the k-th visit fails at read f (k = 0: none fails)
RECURSIVE VisitAll(_, _, _, _, _, _)
VisitAll(visits, i, st, t, k, f) ==
    IF i > Len(visits) THEN st
    ELSE VisitAll(visits, i + 1,
                  VisitProcess(st, visits[i], t, IF i = k THEN f ELSE "none"),
                  t, k, f)

\* new_cache started from the old table instead of {}
NewCacheFromOld(ss, cache, t, k, f) ==
    VisitAll(SessionVisits(ss, 1), 1, [old |-> cache, new |-> cache], t, k, f).new

\* new_cache at the end of the loops
NewCache(ss, cache, t, k, f) ==
    VisitAll(SessionVisits(ss, 1), 1, [old |-> cache, new |-> EmptyCache], t, k, f).new

\* a gate that compares with the key wait's timeout instead of update_interval
GateOpenEachSecond == now - last_update >= GetchTimeout

\* the gate of update_data
GateOpen == now - last_update >= update_interval

\* the pids visited in a refresh of sessions ss
VisitedPids(ss) == {SessionVisits(ss, 1)[i].pid : i \in 1..Len(SessionVisits(ss, 1))}

\* the count kept for each pid: refreshes in a row, since its record was made,
\* in which it was visited and every read succeeded; -1 once a read has failed
NextSeen(ss, k) ==
    LET visits == SessionVisits(ss, 1)
    IN [p \in ChildPids |->
          IF p \notin VisitedPids(ss) THEN 0
          ELSE IF seen[p] = -1 \/ (k > 0 /\ visits[k].pid = p) THEN -1
          ELSE seen[p] + 1]

\* the failing read of a refresh: the pid, the read, and how often the loops
\* visited that pid in the refresh
NoFault == [pid |-> 0, read |-> "none", visits |-> 0]
Fault(ss, k, f) ==
    LET visits == SessionVisits(ss, 1)
    IN IF k = 0 THEN NoFault
       ELSE [pid |-> visits[k].pid, read |-> f,
             visits |-> Cardinality({i \in 1..Len(visits) : visits[i].pid = visits[k].pid})]

envVars == <<tmux, parent, gen, files, ran>>

\* update_data with the gate closed: nothing happens
UpdateGated ==
    /\ pc = "update"
    /\ ~GateOpen
    /\ pc' = "draw"
    /\ UNCHANGED <<key, now, scroll_position, sessions, process_cache, last_update, screen,
                   status, tick, prev_cache, seen, fault, left>>
    /\ UNCHANGED envVars
    /\ UNCHANGED <<input, output>>

\* update_data with the gate open and get_tmux_info raising: the exception
\* leaves update_data and run, and the program ends
UpdateRaises ==
    /\ pc = "update"
    /\ GateOpen
    /\ get_tmux_info(tmux).raised
    /\ pc' = "crashed"
    /\ UNCHANGED <<key, now, scroll_position, sessions, process_cache, last_update, screen,
                   status, tick, prev_cache, seen, fault, left>>
    /\ UNCHANGED envVars
    /\ UNCHANGED <<input, output>>

\* update_data with the gate open: the executed refresh. At most one visit
\* of a refresh has a failing read (visit k, read f), and it is an event of the run
UpdateExecuted ==
    /\ pc = "update"
    /\ GateOpen
    /\ ~get_tmux_info(tmux).raised
    /\ LET ss == get_tmux_info(tmux).sessions
           n == Len(SessionVisits(ss, 1))
       IN \E k \in 0..n : \E f \in Failures :
            /\ k = 0 => f = "ppid"
            /\ k > 0 => left.events > 0
            /\ sessions' = ss
            /\ process_cache' = NewCache(ss, process_cache, tick + 1, k, f)
            /\ seen' = NextSeen(ss, k)
            /\ fault' = Fault(ss, k, f)
            /\ left' = IF k > 0 THEN [left EXCEPT !.events = @ - 1] ELSE left
    /\ last_update' = now
    /\ tick' = tick + 1
    /\ prev_cache' = process_cache
    /\ pc' = "draw"
    /\ UNCHANGED <<key, now, scroll_position, screen, status>>
    /\ UNCHANGED envVars
    /\ UNCHANGED <<input, output>>

----------------------------------------------------------------------------
(* TmuxTop.draw_screen *)

NoSample == [t |-> 0, g |-> 0]

\* info.cpu_history[-1] if info.cpu_history else 0
LastOrZero(h) == IF h # <<>> THEN h[Len(h)] ELSE NoSample

\* one addstr/addnstr: the screen row and column, what is written, and the
\* value of the layout cursor `line` it was written for
Write(row, col, what, line, pid, val) ==
    [row |-> row, col |-> col, what |-> what, line |-> line, pid |-> pid, val |-> val]

\* the two header writes: the title at row 0, the column headers at row 2
HeaderWrites ==
    << Write(0, 0, "title", 0, 0, NoSample), Write(2, 0, "columns", 2, 0, NoSample) >>

\* line - self.scroll_position > height
PastBottomLate(line) == line - scroll_position > Height

\* line - self.scroll_position >= height
PastBottom(line) == line - scroll_position >= Height

\* if line >= self.scroll_position: addstr(line - self.scroll_position, col, ...)
Emit(st, col, what, pid, val) ==
    IF st.line >= scroll_position
    THEN [st EXCEPT !.out = Append(@, Write(st.line - scroll_position, col, what, st.line, pid, val))]
    ELSE st

Advance(st) == [st EXCEPT !.line = @ + 1]

\* the writes of one visible process row (lines 210-217); reading
\* info.create_time or info.cmdline of a record whose first update failed
\* before setting them raises AttributeError after the graphs are written
ProcessRow(st, info) ==
    LET a == Emit(st, 6, "process", info.pid, LastOrZero(info.cpu_history))
        b == Emit(a, ProcessStrLen + 6, "cpu_graph", info.pid, LastOrZero(info.cpu_history))
        c == Emit(b, ProcessStrLen + 17, "mem_graph", info.pid, LastOrZero(info.mem_history))
    IN IF info.create_time = Unset \/ info.cmdline = Unset
       THEN [c EXCEPT !.raised = TRUE]
       ELSE Emit(c, ProcessStrLen + 28, "details", info.pid, NoSample)

\* for process in processes (lines 201-218); process_str reads info.ppid and
\* info.username before the bounds check
RECURSIVE DrawProcesses(_, _, _)
DrawProcesses(processes, i, st) ==
    IF i > Len(processes) \/ st.raised THEN st
    ELSE IF processes[i].pid \notin DOMAIN process_cache
         THEN DrawProcesses(processes, i + 1, st)
         ELSE LET info == process_cache[processes[i].pid]
              IN IF info.ppid = Unset \/ info.username = Unset
                 THEN [st EXCEPT !.raised = TRUE]
                 ELSE IF PastBottom(st.line) THEN st
                 ELSE IF st.line >= scroll_position
                      THEN DrawProcesses(processes, i + 1, Advance(ProcessRow(st, info)))
                      ELSE DrawProcesses(processes, i + 1, Advance(st))

\* the foreground command line of a pane (lines 191-198); st.stop is its break
DrawCommand(st, pid) ==
    IF get_actual_command(pid) = None THEN st
    ELSE IF PastBottom(st.line) THEN [st EXCEPT !.stop = TRUE]
    ELSE Advance(Emit(st, 6, "command", pid, NoSample))

\* for pane_index, pid in panes (lines 184-218)
RECURSIVE DrawPanes(_, _, _)
DrawPanes(panes, i, st) ==
    IF i > Len(panes) \/ st.raised THEN st
    ELSE IF PastBottom(st.line) THEN st
    ELSE LET a == Advance(Emit(st, 4, "pane", panes[i].pid, NoSample))
             b == DrawCommand(a, panes[i].pid)
         IN IF b.stop THEN [b EXCEPT !.stop = FALSE]
            ELSE DrawPanes(panes, i + 1,
                           DrawProcesses(get_process_tree(panes[i].pid), 1, b))

\* for window_name, panes in windows.items() (lines 175-220); the cursor
\* advances by one after the panes of a window
RECURSIVE DrawWindows(_, _, _)
DrawWindows(windows, i, st) ==
    IF i > Len(windows) \/ st.raised THEN st
    ELSE IF PastBottom(st.line) THEN st
    ELSE LET a == Advance(Emit(st, 2, "window", 0, NoSample))
             b == DrawPanes(windows[i].panes, 1, a)
         IN DrawWindows(windows, i + 1, IF b.raised THEN b ELSE Advance(b))

\* for session_name, windows in self.sessions.items() (lines 166-220)
RECURSIVE DrawSessions(_, _, _)
DrawSessions(ss, i, st) ==
    IF i > Len(ss) \/ st.raised THEN st
    ELSE IF PastBottom(st.line) THEN st
    ELSE LET a == Advance(Emit(st, 0, "session", 0, NoSample))
         IN DrawSessions(ss, i + 1, DrawWindows(ss[i].windows, 1, a))

\* draw_screen: the header, then the body from line = 3
Drawn ==
    DrawSessions(sessions, 1,
                 [line |-> HeaderHeight, out |-> HeaderWrites, raised |-> FALSE, stop |-> FALSE])

\* draw_screen; an AttributeError leaves draw_screen and run, and the program ends
DrawScreen ==
    /\ pc = "draw"
    /\ LET d == Drawn
       IN /\ screen' = d.out
          /\ pc' = IF d.raised THEN "crashed" ELSE "getch"
    /\ UNCHANGED <<key, now, scroll_position, sessions, process_cache, last_update,
                   status, tick, prev_cache, seen, fault, left>>
    /\ UNCHANGED envVars
    /\ UNCHANGED <<input, output>>

----------------------------------------------------------------------------
(* TmuxTop.backup_sessions, TmuxTop.restore_sessions *)

ScriptLine(cmd, s, wi, wn, pi, arg) ==
    [cmd |-> cmd, session |-> s, window_index |-> wi, window_name |-> wn,
     pane_index |-> pi, arg |-> arg]

\* `tmux display-message -p -t s:wi.pi "#{pane_current_path}"`, read live
PaneCurrentPath(s, wi, pi) == <<"/home">>

\* a split-window line before every pane, the first included
SplitBeforeEveryPane(i) == TRUE

\* `if i > 0` of enumerate(panes): panes are counted from 1 here
SplitBeforePane(i) == i > 1

\* the lines written for the panes of one window (lines 248-263)
RECURSIVE PaneLines(_, _, _, _)
PaneLines(s, w, panes, i) ==
    IF i > Len(panes) THEN <<>>
    ELSE (IF SplitBeforePane(i)
          THEN <<ScriptLine("split-window", s, w.index, w.name, 0, None)>> ELSE <<>>)
         \o <<ScriptLine("send-keys", s, w.index, w.name, panes[i].index,
                         <<"cd">> \o PaneCurrentPath(s, w.index, panes[i].index))>>
         \o (IF get_actual_command(panes[i].pid) # None
             THEN <<ScriptLine("send-keys", s, w.index, w.name, panes[i].index,
                               get_actual_command(panes[i].pid))>>
             ELSE <<>>)
         \o PaneLines(s, w, panes, i + 1)

\* the lines written for the windows of one session (lines 244-263)
RECURSIVE WindowLines(_, _, _)
WindowLines(s, windows, i) ==
    IF i > Len(windows) THEN <<>>
    ELSE <<ScriptLine("rename-window", s, windows[i].index, windows[i].name, 0, None)>>
         \o PaneLines(s, windows[i], windows[i].panes, 1)
         \o WindowLines(s, windows, i + 1)

\* the lines written after the preamble (lines 241-263), from self.sessions
RECURSIVE SessionLines(_, _)
SessionLines(ss, i) ==
    IF i > Len(ss) THEN <<>>
    ELSE <<ScriptLine("new-session", ss[i].name, 0, "", 0, None)>>
         \o WindowLines(ss[i].name, ss[i].windows, 1)
         \o SessionLines(ss, i + 1)

\* open(f"tmux_backup_{int(time.time())}.sh", "w"): a file of the same second is replaced
WriteBackup(fs, t, script) ==
    {b \in fs : b.name # t} \cup {[name |-> t, ctime |-> t, script |-> script]}

\* min(backup_files, key=os.path.getctime)
OldestBackup(fs) == CHOOSE b \in fs : \A c \in fs : c.ctime >= b.ctime

\* max(backup_files, key=os.path.getctime)
LatestBackup(fs) == CHOOSE b \in fs : \A c \in fs : c.ctime <= b.ctime

\* the exit status of `bash latest_backup`: zero, or not
ExitStatuses == {0, 1}

\* check=True raises CalledProcessError on a non-zero exit status (lines 286-294)
RestoreMessage(e) == IF e = 0 THEN "Sessions restored" ELSE "Failed to restore sessions"

\* the key wait returns a key d whole seconds after it started, before the timeout
KeyDelays == 0..GetchTimeout - 1

\* every key but 'q' and the scroll keys is an event of the run
KeyPressed(d) ==
    /\ pc = "getch"
    /\ left.events > 0
    /\ now + d <= left.until

\* key 'b', `tmux list-sessions` failing: the status line, and nothing is written
BackupNoSessions ==
    /\ key' = "b"
    /\ \E d \in KeyDelays :
         /\ KeyPressed(d)
         /\ now' = now + d + StatusSleep
    /\ tmux.st = "down"
    /\ status' = "No tmux sessions to backup"
    /\ left' = [left EXCEPT !.events = @ - 1]
    /\ pc' = "update"
    /\ UNCHANGED <<scroll_position, sessions, process_cache, last_update, screen,
                   tick, prev_cache, seen, fault>>
    /\ UNCHANGED envVars
    /\ UNCHANGED <<input, output>>

\* key 'b' with no tmux binary: FileNotFoundError is not caught, the program ends
BackupRaises ==
    /\ key' = "b"
    /\ \E d \in KeyDelays : KeyPressed(d) /\ now' = now + d
    /\ tmux.st = "absent"
    /\ left' = [left EXCEPT !.events = @ - 1]
    /\ pc' = "crashed"
    /\ UNCHANGED <<scroll_position, sessions, process_cache, last_update, screen,
                   status, tick, prev_cache, seen, fault>>
    /\ UNCHANGED envVars
    /\ UNCHANGED <<input, output>>

\* key 'b': the script of self.sessions is written to a file named by the clock
Backup ==
    /\ key' = "b"
    /\ \E d \in KeyDelays :
         /\ KeyPressed(d)
         /\ now' = now + d + StatusSleep
         /\ files' = WriteBackup(files, now + d, SessionLines(sessions, 1))
    /\ tmux.st = "up"
    /\ status' = "Sessions backed up"
    /\ left' = [left EXCEPT !.events = @ - 1]
    /\ pc' = "update"
    /\ UNCHANGED <<scroll_position, sessions, process_cache, last_update, screen,
                   tick, prev_cache, seen, fault>>
    /\ UNCHANGED <<tmux, parent, gen, ran>>
    /\ UNCHANGED <<input, output>>

\* key 'r' with no backup file: the status line, no subprocess
RestoreNoBackup ==
    /\ key' = "r"
    /\ \E d \in KeyDelays :
         /\ KeyPressed(d)
         /\ now' = now + d + StatusSleep
    /\ files = {}
    /\ status' = "No backup files found"
    /\ left' = [left EXCEPT !.events = @ - 1]
    /\ pc' = "update"
    /\ UNCHANGED <<scroll_position, sessions, process_cache, last_update, screen,
                   tick, prev_cache, seen, fault>>
    /\ UNCHANGED envVars
    /\ UNCHANGED <<input, output>>

\* what running a script leaves of the multiplexer: with a tmux binary, a
\* server with the sessions the script could create
AfterScript(t) ==
    IF t.st = "absent" THEN {t} ELSE {t} \cup {[st |-> "up", out |-> o] : o \in TmuxOutputs}

\* key 'r': bash runs the latest backup; its exit status picks the message
Restore ==
    /\ key' = "r"
    /\ \E d \in KeyDelays :
         /\ KeyPressed(d)
         /\ now' = now + d + StatusSleep
    /\ files # {}
    /\ \E e \in ExitStatuses :
         /\ ran' = Append(ran, [file |-> LatestBackup(files).name, exit |-> e])
         /\ status' = RestoreMessage(e)
    /\ tmux' \in AfterScript(tmux)
    /\ left' = [left EXCEPT !.events = @ - 1]
    /\ pc' = "update"
    /\ UNCHANGED <<scroll_position, sessions, process_cache, last_update, screen,
                   tick, prev_cache, seen, fault>>
    /\ UNCHANGED <<parent, gen, files>>
    /\ UNCHANGED <<input, output>>

----------------------------------------------------------------------------
(* __main__: `--backup` and `--restore` call one handler on TmuxTop(None) and exit *)

\* what a one-shot run never touches: no loop, no refresh, no screen, no sleep
oneShotVars == <<key, now, scroll_position, sessions, process_cache, last_update, screen,
                 tick, prev_cache, seen, fault, left>>

\* --backup, `tmux list-sessions` failing: the message is printed
OneShotBackupNoSessions ==
    /\ pc = "backup"
    /\ tmux.st = "down"
    /\ status' = "No tmux sessions to backup"
    /\ pc' = "exit"
    /\ UNCHANGED oneShotVars
    /\ UNCHANGED envVars
    /\ UNCHANGED <<input, output>>

\* --backup with no tmux binary: FileNotFoundError is not caught
OneShotBackupRaises ==
    /\ pc = "backup"
    /\ tmux.st = "absent"
    /\ pc' = "crashed"
    /\ UNCHANGED status
    /\ UNCHANGED oneShotVars
    /\ UNCHANGED envVars
    /\ UNCHANGED <<input, output>>

\* --backup: the script of self.sessions, which __init__ left empty and nothing filled
OneShotBackup ==
    /\ pc = "backup"
    /\ tmux.st = "up"
    /\ files' = WriteBackup(files, now, SessionLines(sessions, 1))
    /\ status' = "Sessions backed up"
    /\ pc' = "exit"
    /\ UNCHANGED oneShotVars
    /\ UNCHANGED <<tmux, parent, gen, ran>>
    /\ UNCHANGED <<input, output>>

\* --restore with no backup file: the message is printed, no subprocess
OneShotRestoreNoBackup ==
    /\ pc = "restore"
    /\ files = {}
    /\ status' = "No backup files found"
    /\ pc' = "exit"
    /\ UNCHANGED oneShotVars
    /\ UNCHANGED envVars
    /\ UNCHANGED <<input, output>>

\* --restore: bash runs the latest backup
OneShotRestore ==
    /\ pc = "restore"
    /\ files # {}
    /\ \E e \in ExitStatuses :
         /\ ran' = Append(ran, [file |-> LatestBackup(files).name, exit |-> e])
         /\ status' = RestoreMessage(e)
    /\ tmux' \in AfterScript(tmux)
    /\ pc' = "exit"
    /\ UNCHANGED oneShotVars
    /\ UNCHANGED <<parent, gen, files>>
    /\ UNCHANGED <<input, output>>

----------------------------------------------------------------------------
(* TmuxTop.run: the key wait and the dispatch *)

loopVars == <<sessions, process_cache, last_update, screen, status, tick, prev_cache, seen, fault>>

\* getch returns -1 after the timeout
Timeout ==
    /\ pc = "getch"
    /\ now + GetchTimeout <= left.until
    /\ now' = now + GetchTimeout
    /\ key' = "none"
    /\ pc' = "update"
    /\ UNCHANGED <<scroll_position, left>>
    /\ UNCHANGED loopVars
    /\ UNCHANGED envVars
    /\ UNCHANGED <<input, output>>

\* key 'q': break
KeyQuit ==
    /\ pc = "getch"
    /\ key' = "q"
    /\ pc' = "done"
    /\ UNCHANGED <<now, scroll_position, left>>
    /\ UNCHANGED loopVars
    /\ UNCHANGED envVars
    /\ UNCHANGED <<input, output>>

\* the scroll keys of a run are counted apart from its other events
ScrollKeyPressed(d) ==
    /\ pc = "getch"
    /\ left.scrolls > 0
    /\ now + d <= left.until

\* curses.KEY_UP without the `self.scroll_position > 0` test
KeyUpUnclamped ==
    /\ key' = "up"
    /\ \E d \in KeyDelays : ScrollKeyPressed(d) /\ now' = now + d
    /\ scroll_position' = scroll_position - 1
    /\ left' = [left EXCEPT !.scrolls = @ - 1]
    /\ pc' = "update"
    /\ UNCHANGED loopVars
    /\ UNCHANGED envVars
    /\ UNCHANGED <<input, output>>

\* curses.KEY_UP
KeyUp ==
    /\ key' = "up"
    /\ \E d \in KeyDelays : ScrollKeyPressed(d) /\ now' = now + d
    /\ scroll_position' = IF scroll_position > 0 THEN scroll_position - 1 ELSE scroll_position
    /\ left' = [left EXCEPT !.scrolls = @ - 1]
    /\ pc' = "update"
    /\ UNCHANGED loopVars
    /\ UNCHANGED envVars
    /\ UNCHANGED <<input, output>>

\* curses.KEY_DOWN
KeyDown ==
    /\ key' = "down"
    /\ \E d \in KeyDelays : ScrollKeyPressed(d) /\ now' = now + d
    /\ scroll_position' = scroll_position + 1
    /\ left' = [left EXCEPT !.scrolls = @ - 1]
    /\ pc' = "update"
    /\ UNCHANGED loopVars
    /\ UNCHANGED envVars
    /\ UNCHANGED <<input, output>>

\* any other key: no branch of the dispatch matches
KeyOther ==
    /\ key' = "other"
    /\ \E d \in KeyDelays : KeyPressed(d) /\ now' = now + d
    /\ left' = [left EXCEPT !.events = @ - 1]
    /\ pc' = "update"
    /\ UNCHANGED scroll_position
    /\ UNCHANGED loopVars
    /\ UNCHANGED envVars
    /\ UNCHANGED <<input, output>>

----------------------------------------------------------------------------
(* The environment's steps, taken while the loop waits for a key *)

progVars == <<pc, key, now, scroll_position, sessions, process_cache, last_update, screen,
              status, tick, prev_cache, seen, fault>>

EnvStep ==
    /\ pc = "getch"
    /\ left.events > 0
    /\ left' = [left EXCEPT !.events = @ - 1]
    /\ UNCHANGED progVars
    /\ UNCHANGED <<files, ran>>
    /\ UNCHANGED <<input, output>>

\* a process exits; its children are re-parented to init and leave the pane's tree
ProcessExit ==
    /\ EnvStep
    /\ \E c \in ChildPids :
         /\ parent[c] # NoParent
         /\ parent' = [q \in ChildPids |-> IF q = c \/ parent[q] = c THEN NoParent ELSE parent[q]]
    /\ UNCHANGED <<tmux, gen>>

\* a new process is started under a pane and is given a free process id
ProcessSpawn ==
    /\ EnvStep
    /\ \E c \in ChildPids : \E par \in ShellPids \cup ChildPids :
         /\ parent[c] = NoParent
         /\ [parent EXCEPT ![c] = par] \in ProcessTables
         /\ parent' = [parent EXCEPT ![c] = par]
         /\ gen' = [gen EXCEPT ![c] = @ + 1]
    /\ UNCHANGED tmux

\* sessions, windows or panes are created or destroyed, the server starts or stops
TmuxChange ==
    /\ EnvStep
    /\ tmux' \in TmuxStates \ {tmux}
    /\ UNCHANGED <<parent, gen>>

----------------------------------------------------------------------------
(* The specification *)

\* TmuxTop.__init__
InitProgram ==
    /\ key = "none"
    /\ now = StartTime
    /\ scroll_position = 0
    /\ sessions = <<>>
    /\ process_cache = EmptyCache
    /\ last_update = 0
    /\ screen = <<>>
    /\ status = ""
    /\ ran = <<>>
    /\ tick = 0
    /\ prev_cache = EmptyCache
    /\ seen = [p \in ChildPids |-> 0]
    /\ fault = NoFault
    /\ gen = [p \in ChildPids |-> IF parent[p] # NoParent THEN 1 ELSE 0]

\* the backup scripts earlier runs left in the working directory
OldBackup == [name |-> 0, ctime |-> 0, script |-> <<>>]
NewerBackup == [name |-> 1, ctime |-> 1, script |-> <<>>]

\* the dashboard: a short run in any environment, a long run in a quiet one,
\* or a short run in a quiet one in which the user scrolls
InitDashboard ==
    /\ pc = "update"
    /\ files = {}
    /\ \/ /\ tmux \in TmuxStates
          /\ parent \in InitialTables
          /\ left = [events |-> MaxEvents, scrolls |-> 0, until |-> StartTime + ShortRun]
       \/ /\ tmux \in {[st |-> "up", out |-> OnePane], [st |-> "up", out |-> LinkedWindow]}
          /\ parent = [p \in ChildPids |-> 1]
          /\ left = [events |-> 0, scrolls |-> 0, until |-> StartTime + LongRun]
       \/ /\ tmux \in {[st |-> "up", out |-> TwoPanes], [st |-> "up", out |-> TwoSessions]}
          /\ parent \in InitialTables
          /\ left = [events |-> 0, scrolls |-> MaxScroll, until |-> StartTime + ScrollRun]

\* sys.argv[1] == "--backup" or "--restore": one handler is called, in any environment
InitOneShot ==
    /\ pc \in {"backup", "restore"}
    /\ files \in {{}, {OldBackup}, {OldBackup, NewerBackup}}
    /\ tmux \in TmuxStates
    /\ parent \in InitialTables
    /\ left = [events |-> 0, scrolls |-> 0, until |-> StartTime]

\* no function is run alone
Idle == <<>>

Init ==
    /\ InitDashboard \/ InitOneShot
    /\ InitProgram
    /\ input = Idle
    /\ output = Idle

Next ==
    \/ UpdateGated
    \/ UpdateRaises
    \/ UpdateExecuted
    \/ DrawScreen
    \/ Timeout
    \/ KeyQuit
    \/ KeyUp
    \/ KeyDown
    \/ KeyOther
    \/ BackupNoSessions
    \/ BackupRaises
    \/ Backup
    \/ RestoreNoBackup
    \/ Restore
    \/ OneShotBackupNoSessions
    \/ OneShotBackupRaises
    \/ OneShotBackup
    \/ OneShotRestoreNoBackup
    \/ OneShotRestore
    \/ ProcessExit
    \/ ProcessSpawn
    \/ TmuxChange

Spec == Init /\ [][Next]_vars

----------------------------------------------------------------------------
(* The text of the backup script (lines 241-263) and the shell that reads it *)

\* A text is a sequence of pieces: a quote, a double quote, a blank, a command
\* substitution, or a run of characters that mean nothing to a shell.
SQ == "'"
DQ == "\""
SP == " "
SUB == "$(id)"

\* what shlex.quote leaves as it is: [a-zA-Z0-9_@%+=:,./-]
Safe(c) == c \notin {SQ, DQ, SP, SUB}

\* s.replace("'", "'\"'\"'")
RECURSIVE ReplaceQuotes(_)
ReplaceQuotes(s) ==
    IF s = <<>> THEN <<>>
    ELSE (IF Head(s) = SQ THEN <<SQ, DQ, SQ, DQ, SQ>> ELSE <<Head(s)>>) \o ReplaceQuotes(Tail(s))

\* shlex.quote(s)
quote(s) ==
    IF s = <<>> THEN <<SQ, SQ>>
    ELSE IF \A i \in 1..Len(s) : Safe(s[i]) THEN s
    ELSE <<SQ>> \o ReplaceQuotes(s) \o <<SQ>>

\* ' '.join(shlex.quote(arg) for arg in actual_cmd)
RECURSIVE JoinQuoted(_)
JoinQuoted(args) ==
    IF args = <<>> THEN <<>>
    ELSE quote(Head(args)) \o (IF Len(args) > 1 THEN <<SP>> ELSE <<>>) \o JoinQuoted(Tail(args))

\* {shlex.quote(session_name)}:{window_index}.{pane_index}
PaneTarget(v) == quote(v.session_name) \o <<":", v.window_index, ".", v.pane_index>>

\* line 242
NewSessionText(v) == <<"tmux", SP, "new-session", SP, "-d", SP, "-s", SP>> \o quote(v.session_name)

\* line 246
RenameWindowText(v) ==
    <<"tmux", SP, "rename-window", SP, "-t", SP>> \o quote(v.session_name)
        \o <<":", v.window_index, SP>> \o quote(v.window_name)

\* line 258
CdText(v) ==
    <<"tmux", SP, "send-keys", SP, "-t", SP>> \o PaneTarget(v)
        \o <<SP, SQ, "cd", SP>> \o quote(v.pane_pwd) \o <<SQ, SP, "C-m">>

\* lines 262-263
CommandText(v) ==
    <<"tmux", SP, "send-keys", SP, "-t", SP>> \o PaneTarget(v)
        \o <<SP>> \o JoinQuoted(v.actual_cmd) \o <<SP, "C-m">>

\* bash before it has read anything of a line
ShellStart == [words |-> <<>>, word |-> <<>>, open |-> FALSE, mode |-> "plain", evaluated |-> FALSE]

\* bash reads one piece c: quotes open and close, a blank outside quotes ends
\* a word, a command substitution outside single quotes is run
ShellRead(st, c) ==
    IF st.mode = "single"
    THEN IF c = SQ THEN [st EXCEPT !.mode = "plain"] ELSE [st EXCEPT !.word = Append(@, c)]
    ELSE IF st.mode = "double"
    THEN IF c = DQ THEN [st EXCEPT !.mode = "plain"]
         ELSE IF c = SUB THEN [st EXCEPT !.evaluated = TRUE]
         ELSE [st EXCEPT !.word = Append(@, c)]
    ELSE IF c = SP
         THEN IF st.open
              THEN [st EXCEPT !.words = Append(@, st.word), !.word = <<>>, !.open = FALSE]
              ELSE st
    ELSE IF c = SQ THEN [st EXCEPT !.mode = "single", !.open = TRUE]
    ELSE IF c = DQ THEN [st EXCEPT !.mode = "double", !.open = TRUE]
    ELSE IF c = SUB THEN [st EXCEPT !.evaluated = TRUE, !.open = TRUE]
    ELSE [st EXCEPT !.word = Append(@, c), !.open = TRUE]

RECURSIVE ShellReadAll(_, _)
ShellReadAll(st, text) ==
    IF text = <<>> THEN st ELSE ShellReadAll(ShellRead(st, Head(text)), Tail(text))

\* `bash script` on one line of the script: the words of the command, whether
\* anything was run as shell syntax, whether a quote was left open
ShellWords(text) ==
    LET st == ShellReadAll(ShellStart, text)
    IN [words |-> IF st.open THEN Append(st.words, st.word) ELSE st.words,
        evaluated |-> st.evaluated,
        unclosed |-> st.mode # "plain"]

----------------------------------------------------------------------------
(* One line of the backup script, written and then read by bash *)

\* the longest value tried
MaxText == 3

RECURSIVE TextsOf(_)
TextsOf(n) ==
    IF n = 0 THEN {<<>>}
    ELSE TextsOf(n - 1) \cup {Append(t, c) : t \in TextsOf(n - 1), c \in {"a", SP, SQ, SUB}}

\* the values tmux and the process table can report: names, paths and arguments
\* with blanks, quotes and command substitutions in them
Texts == TextsOf(MaxText)

\* a pane whose values need no quoting
PlainPane ==
    [session_name |-> <<"a">>, window_index |-> "0", window_name |-> <<"w">>,
     pane_index |-> "0", pane_pwd |-> <<"/home">>, actual_cmd |-> <<<<"vim">>, <<"x">>>>]

\* the program as it is when a function is run alone
FunctionAlone ==
    /\ pc = "call"
    /\ tmux = [st |-> "down", out |-> <<>>]
    /\ parent = [p \in ChildPids |-> NoParent]
    /\ files = {}
    /\ left = [events |-> 0, scrolls |-> 0, until |-> StartTime]
    /\ InitProgram
    /\ output = Idle

\* one value of the pane is any text; a session has a name, a pane a directory
ShellInit ==
    /\ FunctionAlone
    /\ \E t \in Texts :
          \/ t # <<>> /\ input = [PlainPane EXCEPT !.session_name = t]
          \/ input = [PlainPane EXCEPT !.window_name = t]
          \/ t # <<>> /\ input = [PlainPane EXCEPT !.pane_pwd = t]
          \/ input = [PlainPane EXCEPT !.actual_cmd = <<<<"vim">>, t>>]

\* a function is run alone, once
Called ==
    /\ pc = "call"
    /\ output = Idle
    /\ UNCHANGED input
    /\ UNCHANGED progState

\* line 242 is written and bash reads it
WriteNewSession ==
    /\ Called
    /\ output' = [line |-> "new-session", read |-> ShellWords(NewSessionText(input))]

\* line 246 is written and bash reads it
WriteRenameWindow ==
    /\ Called
    /\ output' = [line |-> "rename-window", read |-> ShellWords(RenameWindowText(input))]

\* line 258 is written and bash reads it
WriteCd ==
    /\ Called
    /\ output' = [line |-> "cd", read |-> ShellWords(CdText(input))]

\* line 263 is written and bash reads it
WriteCommand ==
    /\ Called
    /\ output' = [line |-> "command", read |-> ShellWords(CommandText(input))]

ShellNext ==
    \/ WriteNewSession
    \/ WriteRenameWindow
    \/ WriteCd
    \/ WriteCommand

ShellSpec == ShellInit /\ [][ShellNext]_vars

----------------------------------------------------------------------------
(* ProcessInfo._get_graph and the cell draw_screen shows of it *)

\* Samples are percentages in hundredths of a percent; the arithmetic is
\* exact, where the program rounds to binary floating point.
Epsilon == 10

\* "▁▂▃▄▅▆▇", each glyph named by its height
graph_chars == <<"1", "2", "3", "4", "5", "6", "7">>

Blank == " "

\* ljust(10), " " * 10, and the n of addnstr(..., 10, ...)
GraphWidth == 10

RECURSIVE MaxOf(_)
MaxOf(data) ==
    IF Len(data) = 1 THEN data[1]
    ELSE LET m == MaxOf(Tail(data)) IN IF data[1] >= m THEN data[1] ELSE m

\* min(int((value / max_value) * len(graph_chars)), len(graph_chars) - 1)
HeightOfSevenths(value, max_value) ==
    LET h == (value * Len(graph_chars)) \div max_value
    IN IF h <= Len(graph_chars) - 1 THEN h ELSE Len(graph_chars) - 1

\* min(int((value / max_value) * (len(graph_chars) - 1)), len(graph_chars) - 1)
HeightOf(value, max_value) ==
    LET h == (value * (Len(graph_chars) - 1)) \div max_value
    IN IF h <= Len(graph_chars) - 1 THEN h ELSE Len(graph_chars) - 1

\* str.ljust(width)
ljust(s, width) == IF Len(s) >= width THEN s ELSE s \o [i \in 1..width - Len(s) |-> Blank]

\* ProcessInfo._get_graph(data)
get_graph(data) ==
    IF data = <<>> THEN [i \in 1..GraphWidth |-> Blank]
    ELSE LET m == MaxOf(data)
             max_value == IF m >= Epsilon THEN m ELSE Epsilon
         IN ljust([i \in 1..Len(data) |-> graph_chars[HeightOf(data[i], max_value) + 1]],
                  GraphWidth)

\* addnstr(row, col, graph, 10): at most 10 characters of the string are drawn
addnstr(str, n) == IF Len(str) <= n THEN str ELSE SubSeq(str, 1, n)

\* the longest history of which every content is tried
MaxSamples == 3

\* what cpu_percent and memory_percent can return, in hundredths: nothing,
\* less than 0.1, 0.1, more
SampleValues == {0, 5, 10, 40}

RECURSIVE HistoriesOf(_)
HistoriesOf(n) ==
    IF n = 0 THEN {<<>>}
    ELSE HistoriesOf(n - 1) \cup {Append(h, v) : h \in HistoriesOf(n - 1), v \in SampleValues}

\* the histories a ProcessInfo can hold: every short one, and of every length
\* up to the capacity a flat one and a rising one
Histories ==
    HistoriesOf(MaxSamples)
        \cup {[i \in 1..n |-> v] : n \in 0..HistCap, v \in SampleValues}
        \cup {[i \in 1..n |-> i] : n \in 0..HistCap}

GraphInit ==
    /\ FunctionAlone
    /\ input \in Histories

\* lines 209-216: the graph of a history, and the cell drawn of it
DrawGraph ==
    /\ Called
    /\ output' = [graph |-> get_graph(input), cell |-> addnstr(get_graph(input), GraphWidth)]

GraphNext == DrawGraph

GraphSpec == GraphInit /\ [][GraphNext]_vars

----------------------------------------------------------------------------
(* Properties of the history cache *)

Min(a, b) == IF a <= b THEN a ELSE b
Max(a, b) == IF a >= b THEN a ELSE b

\* the step is an executed refresh
Refreshed == tick' = tick + 1

\* the samples of h are in the order of the refreshes that took them
OldestFirst(h) == \A i, j \in 1..Len(h) : i < j => h[i].t <= h[j].t

\* h2 is h with j samples of refresh t appended, and exactly the oldest
\* samples of h beyond the capacity evicted
FifoStep(h, h2, t) ==
    \E j \in 0..Len(h2) :
        LET kept == Len(h2) - j
        IN /\ \A i \in kept + 1..Len(h2) : h2[i].t = t
           /\ kept <= Len(h)
           /\ \A i \in 1..kept : h2[i] = h[Len(h) - kept + i]
           /\ Len(h) - kept = Max(0, Len(h) + j - HistCap)

\* C1: in every step, every record of the table has a CPU and a memory
\* history of at most HistCap (20) samples, oldest first; a record that stays
\* in the table keeps its samples in order, new samples are appended at the
\* end, and exactly the oldest samples beyond the capacity are evicted.
HistoriesBoundedFifo ==
    [][\A p \in DOMAIN process_cache' :
          /\ Len(process_cache'[p].cpu_history) <= HistCap
          /\ Len(process_cache'[p].mem_history) <= HistCap
          /\ OldestFirst(process_cache'[p].cpu_history)
          /\ OldestFirst(process_cache'[p].mem_history)
          /\ p \in DOMAIN process_cache =>
                /\ FifoStep(process_cache[p].cpu_history, process_cache'[p].cpu_history, tick')
                /\ FifoStep(process_cache[p].mem_history, process_cache'[p].mem_history, tick')]_vars

\* a full history has lost its oldest sample to an append
EvictionSeen ==
    \E p \in DOMAIN process_cache \cap DOMAIN prev_cache :
        /\ Len(prev_cache[p].cpu_history) = HistCap
        /\ Len(process_cache[p].cpu_history) = HistCap
        /\ Len(process_cache[p].mem_history) = HistCap
        /\ process_cache[p].cpu_history[1] = prev_cache[p].cpu_history[2]
        /\ process_cache[p].cpu_history[HistCap].t = tick

\* the pane process ids of a topology
PanePidsOf(ss) ==
    {ss[i].windows[j].panes[k].pid :
        <<i, j, k>> \in {x \in (1..Len(ss)) \X (1..2) \X (1..2) :
                            /\ x[2] <= Len(ss[x[1]].windows)
                            /\ x[3] <= Len(ss[x[1]].windows[x[2]].panes)}}

\* the process-id set of a tick: the union of get_process_tree over its panes
TickPids(ss) ==
    UNION {IF q \in ShellPids THEN DescendantsOf({q}, Cardinality(ChildPids)) ELSE {} :
              q \in PanePidsOf(ss)}

\* C2: after every executed refresh no process id outside the tick's
\* process-id set is a key of the table, and a key that was not in the table
\* before the refresh holds only samples of this refresh.
NoLeakedEntries ==
    [][Refreshed =>
          /\ DOMAIN process_cache' \subseteq TickPids(sessions')
          /\ \A p \in DOMAIN process_cache' \ DOMAIN process_cache :
                \A i \in 1..Len(process_cache'[p].cpu_history) :
                    process_cache'[p].cpu_history[i].t = tick']_vars

\* a record of the previous table was dropped by the last refresh, and a
\* record it kept carries more than one sample
EntryDropped ==
    /\ tick >= 2
    /\ \E p \in DOMAIN prev_cache : p \notin DOMAIN process_cache /\ prev_cache[p].cpu_history # <<>>
    /\ \E p \in DOMAIN process_cache : Len(process_cache[p].cpu_history) >= 2

\* C3: a process id visited in each of N refreshes in a row since its record
\* was made, every read succeeding, has min(N, 20) samples in each history.
OneSamplePerRefresh ==
    \A p \in DOMAIN process_cache :
        seen[p] >= 1 =>
            /\ Len(process_cache[p].cpu_history) = Min(seen[p], HistCap)
            /\ Len(process_cache[p].mem_history) = Min(seen[p], HistCap)

\* the full expansion of a pane: its own process and all its descendants
FullExpansion(q) ==
    IF q \in ShellPids THEN {q} \cup DescendantsOf({q}, Cardinality(ChildPids)) ELSE {}

\* C4: after every executed refresh the keys of the table contain the full
\* expansion (the pane's own process and its descendants) of every pane.
TableCoversExpansions ==
    [][Refreshed =>
          \A q \in PanePidsOf(sessions') : FullExpansion(q) \subseteq DOMAIN process_cache']_vars

\* C5: an executed refresh happens only when update_interval (2) seconds have
\* passed since the time the last one recorded, and records the time; a call
\* of update_data before that leaves the topology, the table with every
\* history and last_update as they are; the first call is never gated.
CadenceGate ==
    [][/\ Refreshed => now - last_update >= update_interval /\ last_update' = now
       /\ pc = "update" /\ now - last_update < update_interval =>
             /\ pc' = "draw"
             /\ UNCHANGED <<sessions, process_cache, last_update, tick>>
       /\ pc = "update" /\ tick = 0 /\ last_update = 0 =>
             Refreshed \/ pc' = "crashed"]_vars

\* a call of update_data was gated one second after an executed refresh
GatedCall ==
    /\ pc = "draw"
    /\ tick >= 1
    /\ now - last_update = 1
    /\ process_cache # EmptyCache

\* the attributes and histories of a record no read of which succeeded
Untouched(info) ==
    /\ info.cpu_history = <<>> /\ info.mem_history = <<>>
    /\ info.ppid = Unset /\ info.username = Unset
    /\ info.create_time = Unset /\ info.cmdline = Unset

\* C6: when a read of a process failed in the last refresh (and the process
\* was visited once), its record is as it was before the refresh, or as
\* constructed if it is new, and every other record has this refresh's sample.
FailedSampleSkipped ==
    fault.pid # 0 /\ fault.visits = 1 /\ fault.pid \in DOMAIN process_cache =>
        /\ IF fault.pid \in DOMAIN prev_cache
           THEN process_cache[fault.pid] = prev_cache[fault.pid]
           ELSE Untouched(process_cache[fault.pid])
        /\ \A q \in DOMAIN process_cache \ {fault.pid} :
              LastOrZero(process_cache[q].cpu_history).t = tick

\* C7: the render that follows a refresh in which the first sample of a new
\* process failed completes, and the loop goes on to the key wait.
RenderSurvivesFailedFirstSample ==
    [][pc = "draw" /\ fault.pid # 0 /\ fault.pid \notin DOMAIN prev_cache => pc' = "getch"]_vars

\* the topology provider has nothing to report
NothingToReport == tmux.st \in {"absent", "down"} \/ tmux.out = <<>>

\* C8: a refresh in which the multiplexer is absent, not running or without
\* sessions yields the empty topology and the empty table and goes on to the render.
NoSessionsIsNotFatal ==
    [][pc = "update" /\ GateOpen /\ NothingToReport =>
          pc' = "draw" /\ sessions' = <<>> /\ process_cache' = EmptyCache]_vars

\* C9: after an executed refresh every sample kept under a process id was
\* taken from the process that holds the id in that refresh.
NoHistoryOfOldProcess ==
    [][Refreshed =>
          \A p \in DOMAIN process_cache' :
              \A i \in 1..Len(process_cache'[p].cpu_history) :
                  process_cache'[p].cpu_history[i].g = gen[p]]_vars

\* the step is a key read of run
KeyRead == pc = "getch" /\ pc' # "getch"

\* C10: scroll_position is never negative; reading scroll-up gives 0 at 0
\* and k-1 at k > 0, reading scroll-down gives k+1, and every other step (any
\* other key, the timeout, backup, restore) leaves it as it is.
ScrollOffsetNonNegative ==
    [][/\ scroll_position >= 0 /\ scroll_position' >= 0
       /\ scroll_position' =
             IF KeyRead /\ key' = "up" THEN (IF scroll_position > 0 THEN scroll_position - 1 ELSE 0)
             ELSE IF KeyRead /\ key' = "down" THEN scroll_position + 1
             ELSE scroll_position]_vars

\* scroll-up was read at offset 0 as the first key and left the offset 0
ScrollUpAtZero ==
    /\ pc = "update"
    /\ key = "up"
    /\ scroll_position = 0
    /\ left.scrolls = MaxScroll - 1

----------------------------------------------------------------------------
(* Properties of backup and restore *)

\* the lines of a script that run the tmux command cmd
LinesOf(script, cmd) == {i \in 1..Len(script) : script[i].cmd = cmd}

\* the names of the sessions the multiplexer reports
LiveSessionNames ==
    LET ss == get_tmux_info(tmux).sessions IN {ss[i].name : i \in 1..Len(ss)}

\* C11: a one-shot `--backup` run against a server with sessions writes a
\* script with one new-session line for each session the server has, not
\* only the preamble.
OneShotBackupCapturesTopology ==
    pc = "exit" /\ status = "Sessions backed up" =>
        LET script == LatestBackup(files).script
        IN \A n \in LiveSessionNames :
              \E i \in LinesOf(script, "new-session") : script[i].session = n

\* the lines of a script that run cmd on window wi of session n
WindowLinesOf(script, cmd, n, wi) ==
    {i \in LinesOf(script, cmd) : script[i].session = n /\ script[i].window_index = wi}

\* the first send-keys line of pane pi of window wi of session n
FirstKeysOf(script, n, wi, pi) ==
    LET K == {i \in WindowLinesOf(script, "send-keys", n, wi) : script[i].pane_index = pi}
    IN CHOOSE i \in K : \A j \in K : i <= j

\* the script has one new-session line per session of ss, one rename-window
\* line per window, and for a window of k panes k - 1 split-window lines, one
\* right before the send-keys lines of each pane but the first
ScriptMatches(script, ss) ==
    /\ Cardinality(LinesOf(script, "new-session")) = Len(ss)
    /\ \A s \in 1..Len(ss) :
          /\ Cardinality({i \in LinesOf(script, "new-session") :
                              script[i].session = ss[s].name}) = 1
          /\ \A w \in 1..Len(ss[s].windows) :
                LET win == ss[s].windows[w]
                    n == ss[s].name
                IN /\ Cardinality(WindowLinesOf(script, "rename-window", n, win.index)) = 1
                   /\ Cardinality(WindowLinesOf(script, "split-window", n, win.index))
                         = Len(win.panes) - 1
                   /\ \A p \in 1..Len(win.panes) :
                         LET before == script[FirstKeysOf(script, n, win.index, win.panes[p].index) - 1]
                         IN /\ before.session = n
                            /\ before.window_index = win.index
                            /\ before.cmd = IF p = 1 THEN "rename-window" ELSE "split-window"

\* the backup handler has just written a script
BackedUp ==
    /\ status = "Sessions backed up"
    /\ (pc = "update" /\ key = "b") \/ pc = "exit"

\* C12: the script the backup handler has just written from the last-known
\* topology has exactly one new-session line per session, exactly one
\* rename-window line per window, and for a window with k panes exactly k - 1
\* split-window lines: none before the first pane's send-keys lines and one
\* right before those of each later pane.
BackupScriptShape ==
    BackedUp => ScriptMatches(LatestBackup(files).script, sessions)

\* a script was written for a window of two panes
SplitWindowWritten ==
    /\ BackedUp
    /\ key = "b"
    /\ \E s \in 1..Len(sessions) : \E w \in 1..Len(sessions[s].windows) :
          Len(sessions[s].windows[w].panes) = 2

\* the step is a call of restore_sessions: key 'r', or `--restore`
RestoreCalled == (KeyRead /\ key' = "r") \/ (pc = "restore" /\ pc' # pc)

\* C14: a call of the restore handler with no backup file reports that no
\* backup was found, starts no subprocess and returns to the loop (or to the
\* exit of a one-shot run); with at least one backup file it starts exactly
\* one subprocess, on the file of the greatest creation time, reports a
\* non-zero exit status as a failure, and returns in the same way.
RestoreRunsLatestOnce ==
    [][RestoreCalled =>
          /\ pc' = IF pc = "getch" THEN "update" ELSE "exit"
          /\ IF files = {}
             THEN status' = "No backup files found" /\ ran' = ran
             ELSE /\ Len(ran') = Len(ran) + 1
                  /\ SubSeq(ran', 1, Len(ran)) = ran
                  /\ \E b \in files :
                        /\ \A c \in files : c.ctime <= b.ctime
                        /\ ran'[Len(ran')].file = b.name
                  /\ status' = IF ran'[Len(ran')].exit = 0
                               THEN "Sessions restored" ELSE "Failed to restore sessions"]_vars

\* the script failed, the failure was reported and the loop goes on
FailedRestoreReported ==
    /\ pc = "update"
    /\ key = "r"
    /\ ran # <<>>
    /\ ran[Len(ran)].exit # 0
    /\ status = "Failed to restore sessions"

----------------------------------------------------------------------------
(* Properties of the script text *)

\* the words tmux is to be started with
TargetWord(v) == v.session_name \o <<":", v.window_index, ".", v.pane_index>>

\* bash reads the line as the words ws and runs nothing of it
ReadAs(r, ws) == r.words = ws /\ ~r.evaluated /\ ~r.unclosed

\* the keys sent to the pane are `cd` and the directory, as the pane's shell reads them
CdRecovered(r, v) ==
    /\ Len(r.words) = 6
    /\ ReadAs(r, [r.words EXCEPT ![1] = <<"tmux">>, ![2] = <<"send-keys">>, ![3] = <<"-t">>,
                                 ![4] = TargetWord(v), ![6] = <<"C-m">>])
    /\ ReadAs(ShellWords(r.words[5]), <<<<"cd">>, v.pane_pwd>>)

\* C13: in every line of the script, bash recovers each interpolated value
\* (session name, window name, pane directory, each argument of the
\* command) as the same literal text in the argument it was written into,
\* whatever blanks, quotes or command substitutions it holds, and runs
\* nothing of it as shell syntax.
ValuesRecoveredLiterally ==
    output # Idle =>
        LET v == input
            r == output.read
        IN CASE output.line = "new-session" ->
                  ReadAs(r, <<<<"tmux">>, <<"new-session">>, <<"-d">>, <<"-s">>, v.session_name>>)
             [] output.line = "rename-window" ->
                  ReadAs(r, <<<<"tmux">>, <<"rename-window">>, <<"-t">>,
                              v.session_name \o <<":", v.window_index>>, v.window_name>>)
             [] output.line = "cd" -> CdRecovered(r, v)
             [] output.line = "command" ->
                  ReadAs(r, <<<<"tmux">>, <<"send-keys">>, <<"-t">>, TargetWord(v)>>
                              \o v.actual_cmd \o <<<<"C-m">>>>)

----------------------------------------------------------------------------
(* Properties of the sparkline *)

Glyphs == {graph_chars[k] : k \in 1..Len(graph_chars)}

\* C19: for a history of n samples, n from 0 to the capacity HistCap (20),
\* the cell drawn has exactly the display width and shows the n glyphs of
\* the history, oldest first and the most recent included, followed by
\* blanks only.
CellShowsWholeHistory ==
    output # Idle =>
        /\ Len(output.cell) = GraphWidth
        /\ \A i \in 1..Len(input) : i <= Len(output.cell) /\ output.cell[i] \in Glyphs
        /\ \A i \in Len(input) + 1..Len(output.cell) : output.cell[i] = Blank

----------------------------------------------------------------------------
(* Properties of the loop *)

\* C16: every iteration of run goes from the gated sampler call to one
\* render and from the render to one key wait; a key read ends the loop
\* exactly when the key is 'q', and the timeout and every other key (scroll,
\* backup, restore, unknown) lead to the sampler call of the next iteration.
LoopOrder ==
    [][/\ pc = "update" => pc' = "draw"
       /\ pc = "draw" => pc' = "getch"
       /\ KeyRead => /\ pc' = "done" <=> key' = "q"
                     /\ key' # "q" => pc' = "update"]_vars

----------------------------------------------------------------------------
(* Properties of the render *)

\* the writes of the last render below the two header writes, in order
Body == SubSeq(screen, Len(HeaderWrites) + 1, Len(screen))

\* the last render was made at the current scroll offset
Rendered == pc = "getch"

\* C17: every body line of a render is written for a cursor index L with
\* scroll_position <= L < scroll_position + height, at screen row
\* L - scroll_position, which is a row of the screen; the cursor never goes
\* back, so nothing is written once it has passed the bottom.
BodyWithinViewport ==
    Rendered =>
        /\ \A i \in 1..Len(Body) :
              /\ scroll_position <= Body[i].line
              /\ Body[i].line < scroll_position + Height
              /\ Body[i].row = Body[i].line - scroll_position
              /\ Body[i].row \in 0..Height - 1
        /\ \A i, j \in 1..Len(Body) : i < j => Body[i].line <= Body[j].line

\* a render that left out lines above the viewport and lines below it
ClippedAtBothEnds ==
    /\ Rendered
    /\ scroll_position > HeaderHeight
    /\ Drawn.line > scroll_position + Height
    /\ \E i, j \in 1..Len(Body) : Body[i].row = 0 /\ Body[j].row = Height - 1

\* Body[i] and Body[j] are the labels of two consecutive panes of one window
ConsecutivePanes(i, j) ==
    /\ i < j
    /\ Body[i].what = "pane"
    /\ Body[j].what = "pane"
    /\ \A k \in i + 1..j - 1 : Body[k].what \notin {"pane", "window", "session"}

\* C18: the cursor advances by one blank line after each pane group: the
\* label of the second of two consecutive panes of a window is written
\* exactly one blank line after the last line of the first pane's group.
BlankLineAfterPaneGroup ==
    Rendered =>
        \A i, j \in 1..Len(Body) :
            ConsecutivePanes(i, j) => Body[j].line = Body[j - 1].line + 2

\* C20: at every scroll offset the title at row 0 and the column headers
\* at row 2 are not overwritten by the body of the same render: body lines
\* are written only at rows at or below the header height, 3.
HeaderNotOverwritten ==
    Rendered => \A i \in 1..Len(Body) : Body[i].row >= HeaderHeight

====
